---- MODULE Spec2Model ----
(***************************************************************************)
(* Basket KPIs API (src/main.py): a FastAPI service that loads orders.csv  *)
(* once in its lifespan hook and answers four read-only GET endpoints.     *)
(*                                                                         *)
(* Numbers.  Category cells are non-negative integers; NaN is the cell     *)
(* Null.  A float the service rounds to d decimals is kept as the integer  *)
(* count of 10^-d units (4.33 is 433 hundredths, 33.3 is 333 tenths).      *)
(* A label f"{h}:00 AM" is kept as the record [hour |-> h, suffix |-> AM]. *)
(***************************************************************************)
EXTENDS Integers, Sequences, FiniteSets, TLC

VARIABLES csv, build, startup, df, category_columns, request, response

vars == <<csv, build, startup, df, category_columns, request, response>>

-----------------------------------------------------------------------------
(* Bounds of the model                                                     *)

MaxKpiRows == 3
MaxCatRows == 2
MaxDowRows == 3
NumHours == 12

-----------------------------------------------------------------------------
(* Program constants                                                       *)

Null == -1
None == [columns |-> <<>>, rows |-> <<>>, loaded |-> FALSE]

meta_cols == {"order_id", "order_dow", "order_hour_of_day", "days_since_prior_order"}

DefaultLimit == 10
MinLimit == 1
MaxLimit == 100
PeakHoursN == 10

day_names == [d \in 0..6 |->
    CASE d = 0 -> "Sunday" [] d = 1 -> "Monday" [] d = 2 -> "Tuesday"
      [] d = 3 -> "Wednesday" [] d = 4 -> "Thursday" [] d = 5 -> "Friday"
      [] d = 6 -> "Saturday"]

-----------------------------------------------------------------------------
(* Library operations (pandas / Python builtins) as the code uses them     *)

Min(a, b) == IF a <= b THEN a ELSE b

RECURSIVE SumSeq(_)
SumSeq(s) == IF s = <<>> THEN 0 ELSE Head(s) + SumSeq(Tail(s))

\* Series.sum(): NaN entries are skipped (skipna=True).
SeriesSum(s) == SumSeq([i \in 1..Len(s) |-> IF s[i] = Null THEN 0 ELSE s[i]])

\* round(num/den, d) in units of 1/scale (scale = 10^d): the nearest unit,
\* an exact half going to the even neighbour, as Python's round and
\* numpy's around both do on a value that is exactly a half.  num/den * scale
\* is an exact half only when den (in lowest terms) has a factor 8 (scale
\* 100) or 16 (scale 10); the row counts of the model stay below that, where
\* the float quotient rounds as the exact quotient does.
Round(num, den, scale) ==
    LET q == (num * scale) \div den
        r == (num * scale) % den
    IN  IF 2 * r > den THEN q + 1
        ELSE IF 2 * r < den THEN q
        ELSE IF q % 2 = 0 THEN q ELSE q + 1

\* Position of a column in the header (DataFrame[name]).
ColIndex(columns, name) == CHOOSE i \in 1..Len(columns) : columns[i] = name

\* DataFrame[name]: the column as a sequence over the rows.
Column(data, name) ==
    [r \in 1..Len(data.rows) |-> data.rows[r][ColIndex(data.columns, name)]]

\* The tie order of the build's sort.  sort_values() is called with its
\* default kind="quicksort", which pandas documents as not stable: where
\* equal keys end up depends on the numpy build and on the length of the
\* input.  A build is deterministic, so the tie order is fixed per run.
TieOrders == {"stable", "reverse", "rotate"}

TiePos(tie, i, n) ==
    CASE tie = "stable" -> i
      [] tie = "reverse" -> n + 1 - i
      [] tie = "rotate" -> (i % n) + 1

\* Variant: ascending=True.
sort_values_asc(s, tie) ==
    LET n == Len(s)
        Before(i, j) == \/ s[i].val < s[j].val
                        \/ /\ s[i].val = s[j].val
                           /\ TiePos(tie, i, n) < TiePos(tie, j, n)
    IN  [k \in 1..n |->
            s[CHOOSE i \in 1..n : Cardinality({j \in 1..n : Before(j, i)}) = k - 1]]

\* Series.sort_values(ascending=False) on a Series given as a sequence of
\* [key, val] entries: descending by val, equal vals in the build's order.
sort_values_desc(s, tie) ==
    LET n == Len(s)
        Before(i, j) == \/ s[i].val > s[j].val
                        \/ /\ s[i].val = s[j].val
                           /\ TiePos(tie, i, n) < TiePos(tie, j, n)
    IN  [k \in 1..n |->
            s[CHOOSE i \in 1..n : Cardinality({j \in 1..n : Before(j, i)}) = k - 1]]

\* Series.sort_index(): ascending by key (keys of a value_counts are distinct).
sort_index(s) ==
    LET n == Len(s)
    IN  [k \in 1..n |->
            s[CHOOSE i \in 1..n :
                Cardinality({j \in 1..n : s[j].key < s[i].key}) = k - 1]]

\* Series.head(n)
head(s, n) == SubSeq(s, 1, Min(n, Len(s)))

\* Series.value_counts(): one entry per distinct value, counted, in the order
\* of first appearance and then sorted by count, descending (sort=True).
value_counts(col, tie) ==
    LET firsts == {i \in 1..Len(col) : \A j \in 1..(i - 1) : col[j] # col[i]}
        m == Cardinality(firsts)
        pos == [k \in 1..m |->
                   CHOOSE i \in firsts : Cardinality({j \in firsts : j < i}) = k - 1]
        counted == [k \in 1..m |->
                       [key |-> col[pos[k]],
                        val |-> Cardinality({j \in 1..Len(col) : col[j] = col[pos[k]]})]]
    IN  sort_values_desc(counted, tie)

\* Series.median() of a non-empty Series of numbers, as the fraction
\* [num, den]: the middle value, or the mean of the two middle values.
median(s) ==
    LET n == Len(s)
        asc == [k \in 1..n |->
                   s[CHOOSE i \in 1..n :
                       Cardinality({j \in 1..n : s[j] < s[i] \/ (s[j] = s[i] /\ j < i)}) = k - 1]]
    IN  IF n % 2 = 1 THEN [num |-> asc[(n + 1) \div 2], den |-> 1]
        ELSE [num |-> asc[n \div 2] + asc[n \div 2 + 1], den |-> 2]

-----------------------------------------------------------------------------
(* The source file orders.csv: the inputs of the model                     *)

HeaderFull == <<"order_id", "order_dow", "order_hour_of_day",
                "days_since_prior_order", "fresh_fruits", "yogurt",
                "packaged_cheese">>
HeaderTwo == <<"order_id", "fresh_fruits", "order_dow", "order_hour_of_day",
               "yogurt", "days_since_prior_order">>
HeaderMeta == <<"order_id", "order_dow", "order_hour_of_day",
                "days_since_prior_order">>

File(columns, rows) == [exists |-> TRUE, columns |-> columns, rows |-> rows]

MissingFile == [exists |-> FALSE, columns |-> <<>>, rows |-> <<>>]

\* The table of the tests: 3 orders, 3 categories.
SampleFile ==
    File(HeaderFull, << <<1, 0, 10, 5, 2, 1, 1>>,
                        <<2, 1, 14, 10, 0, 3, 1>>,
                        <<3, 2, 10, 7, 5, 0, 0>> >>)

\* Two category columns between the metadata columns, cells missing or
\* counted; the first order has no days_since_prior_order.
KpiFiles ==
    UNION {
      { File(HeaderTwo,
             [i \in 1..n |-> <<i, a[i], i % 7, (9 + i) % 24, b[i],
                               IF i = 1 THEN Null ELSE 7>>]) :
          a \in [1..n -> {Null, 1, 2}], b \in [1..n -> {Null, 2}] } :
      n \in 1..MaxKpiRows }

\* Three category columns with small counts: many equal totals.
CatFiles ==
    UNION {
      { File(HeaderFull,
             [i \in 1..n |-> <<i, i % 7, (9 + i) % 24, 3,
                               c[i][1], c[i][2], c[i][3]>>]) :
          c \in [1..n -> [1..3 -> {0, 1}]] } :
      n \in 1..MaxCatRows }

\* No category column; any days of the week, 7 being out of the domain;
\* the table may have no rows.
DowFiles ==
    UNION {
      { File(HeaderMeta, [i \in 1..n |-> <<i, d[i], (7 * i) % 24, 3>>]) :
          d \in [1..n -> {0, 1, 6, 7}] } :
      n \in 0..MaxDowRows }

\* NumHours hours, every second hour of the day from base on; hour k of
\* them is ordered cnt[k] times for k < 4 and once otherwise.
HourRows(base, cnt) ==
    LET c(k) == IF k < 4 THEN cnt[k] ELSE 1
        upto(k) == SumSeq([j \in 1..k |-> c(j - 1)])
        total == upto(NumHours)
        hourOf(r) == CHOOSE k \in 0..(NumHours - 1) : upto(k) < r /\ r <= upto(k + 1)
    IN  [r \in 1..total |-> <<r, r % 7, (base + 2 * hourOf(r)) % 24, 3>>]

HourFiles ==
    { File(HeaderMeta, HourRows(base, cnt)) :
        base \in {0, 1}, cnt \in [0..3 -> 0..2] }

CsvFiles == {MissingFile, SampleFile} \cup KpiFiles \cup CatFiles \cup DowFiles
            \cup HourFiles

\* What the installed libraries decide: the tie order of the sort, and
\* whether a NaN in a response body is refused by the JSON encoder
\* (json.dumps(allow_nan=False) raises ValueError) or written as null.
Builds == [tie : TieOrders, nan_json : {"raise", "null"}]

-----------------------------------------------------------------------------
(* Requests and responses                                                  *)

\* The raw query parameter limit: absent, an integer, or not an integer.
NoLimit == [present |-> FALSE, int |-> FALSE, val |-> 0]
IntLimit(v) == [present |-> TRUE, int |-> TRUE, val |-> v]
TextLimit == [present |-> TRUE, int |-> FALSE, val |-> 0]

LimitParams == {NoLimit, TextLimit} \cup {IntLimit(v) : v \in {-1, 0, 1, 2, 100, 101}}

Request(path, limit) == [path |-> path, limit |-> limit]

NoRequest == Request("", NoLimit)

Json(status_code, content) ==
    [status |-> status_code, media |-> "json", body |-> content]

NoResponse == [status |-> 0, media |-> "", body |-> [none |-> TRUE]]

\* An exception no handler is registered for: Starlette's
\* ServerErrorMiddleware answers 500 with the plain text below.
ServerError ==
    [status |-> 500, media |-> "text", body |-> [text |-> "Internal Server Error"]]

\* Variant: the framework's default body {"detail": ...}.
http_exception_default(status_code, detail) ==
    Json(status_code, [detail |-> detail])

http_exception_handler(status_code, detail) ==
    Json(status_code, [status |-> "error", message |-> detail])

validation_exception_handler ==
    Json(400, [status |-> "error",
               message |-> "Invalid query parameter: limit must be between 1 and 100"])

-----------------------------------------------------------------------------
(* load_data and the endpoint handlers                                     *)

\* load_data: the category columns are the columns that are not metadata,
\* in header order; their missing cells become 0.
load_data(file) ==
    LET cats == SelectSeq(file.columns, LAMBDA col : col \notin meta_cols)
        iscat(c) == \E k \in 1..Len(cats) : cats[k] = file.columns[c]
        data == [columns |-> file.columns,
                 rows |-> [r \in 1..Len(file.rows) |->
                             [c \in 1..Len(file.columns) |->
                                 IF iscat(c) /\ file.rows[r][c] = Null
                                 THEN 0 ELSE file.rows[r][c]]],
                 loaded |-> TRUE]
    IN  [data |-> data, cats |-> cats]

health == Json(200, [status |-> "ok"])

\* Variant: df.sum(axis=1), every column summed.
items_per_order_all_columns(data, cats) ==
    [r \in 1..Len(data.rows) |-> SeriesSum(data.rows[r])]

\* df[category_columns].sum(axis=1)
items_per_order(data, cats) ==
    [r \in 1..Len(data.rows) |->
        SeriesSum([k \in 1..Len(cats) |->
                      data.rows[r][ColIndex(data.columns, cats[k])]])]

get_kpis(data, cats, bld) ==
    IF data = None THEN http_exception_handler(500, "Data not loaded")
    ELSE LET items == items_per_order(data, cats)
             total_orders == Len(data.rows)
             total_items == SeriesSum(items)
             med == median(items)
         IN  IF total_orders = 0
             THEN \* mean and median of an empty Series are NaN
                  IF bld.nan_json = "raise" THEN ServerError
                  ELSE Json(200, [total_orders |-> 0,
                                  total_items |-> 0,
                                  avg_items_per_order |-> Null,
                                  median_items_per_order |-> Null])
             ELSE Json(200, [total_orders |-> total_orders,
                             total_items |-> total_items,
                             avg_items_per_order |->
                                 Round(total_items, total_orders, 100),
                             median_items_per_order |->
                                 Round(med.num, med.den, 100)])

\* Query(default=10, ge=1, le=100) on an int parameter
limit_valid(param) ==
    \/ ~param.present
    \/ param.int /\ MinLimit <= param.val /\ param.val <= MaxLimit

limit_value(param) == IF param.present THEN param.val ELSE DefaultLimit

\* df[category_columns].sum()
category_totals(data, cats) ==
    [k \in 1..Len(cats) |->
        [key |-> cats[k], val |-> SeriesSum(Column(data, cats[k]))]]

\* Variant: the data-loaded guard ahead of the validation of limit.
get_top_categories_guard_first(data, cats, bld, param) ==
    IF data = None THEN http_exception_handler(500, "Data not loaded")
    ELSE IF ~limit_valid(param) THEN validation_exception_handler
    ELSE LET limit == limit_value(param)
             top_n == head(sort_values_desc(category_totals(data, cats), bld.tie),
                           limit)
         IN  Json(200, [limit |-> limit,
                        top_categories |->
                            [k \in 1..Len(top_n) |->
                                [category |-> top_n[k].key,
                                 total_items |-> top_n[k].val]]])

get_top_categories(data, cats, bld, param) ==
    IF ~limit_valid(param) THEN validation_exception_handler
    ELSE IF data = None THEN http_exception_handler(500, "Data not loaded")
    ELSE LET limit == limit_value(param)
             top_n == head(sort_values_desc(category_totals(data, cats), bld.tie),
                           limit)
         IN  Json(200, [limit |-> limit,
                        top_categories |->
                            [k \in 1..Len(top_n) |->
                                [category |-> top_n[k].key,
                                 total_items |-> top_n[k].val]]])

\* Variant: noon taken for a morning hour (hour <= 12).
format_hour_noon_am(hour) ==
    IF hour = 0 THEN [hour |-> 12, suffix |-> "AM"]
    ELSE IF hour <= 12 THEN [hour |-> hour, suffix |-> "AM"]
    ELSE [hour |-> hour - 12, suffix |-> "PM"]

format_hour(hour) ==
    IF hour = 0 THEN [hour |-> 12, suffix |-> "AM"]
    ELSE IF hour < 12 THEN [hour |-> hour, suffix |-> "AM"]
    ELSE IF hour = 12 THEN [hour |-> 12, suffix |-> "PM"]
    ELSE [hour |-> hour - 12, suffix |-> "PM"]

\* Variant: sort_index() left out.
dow_counts_unsorted(data, bld) ==
    value_counts(Column(data, "order_dow"), bld.tie)

\* df['order_dow'].value_counts().sort_index()
dow_counts(data, bld) ==
    sort_index(value_counts(Column(data, "order_dow"), bld.tie))

\* Variant: head(10) left out.
hour_counts_all(data, bld) ==
    sort_values_desc(value_counts(Column(data, "order_hour_of_day"), bld.tie),
                     bld.tie)

\* df['order_hour_of_day'].value_counts().sort_values(ascending=False).head(10)
hour_counts(data, bld) ==
    head(sort_values_desc(value_counts(Column(data, "order_hour_of_day"), bld.tie),
                          bld.tie),
         PeakHoursN)

get_order_distribution(data, bld) ==
    IF data = None THEN http_exception_handler(500, "Data not loaded")
    ELSE LET dows == dow_counts(data, bld)
             total == Len(data.rows)
             hours == hour_counts(data, bld)
         IN  IF \E k \in 1..Len(dows) : dows[k].key \notin DOMAIN day_names
             THEN ServerError   \* day_names[int(dow)] raises KeyError
             ELSE Json(200,
                    [summary |-> [total_orders |-> total,
                                  analysis_period |-> "All available data"],
                     day_of_week_distribution |->
                         [k \in 1..Len(dows) |->
                             [day |-> day_names[dows[k].key],
                              day_number |-> dows[k].key,
                              orders |-> dows[k].val,
                              percentage |-> Round(dows[k].val * 100, total, 10)]],
                     peak_hours |->
                         [k \in 1..Len(hours) |->
                             [hour |-> format_hour(hours[k].key),
                              hour_24 |-> hours[k].key,
                              orders |-> hours[k].val]]])

-----------------------------------------------------------------------------
(* The state machine                                                       *)

Init ==
    /\ csv \in CsvFiles
    /\ build \in Builds
    /\ startup = "pending"
    /\ df = None
    /\ category_columns = <<>>
    /\ request = NoRequest
    /\ response = NoResponse

\* lifespan, orders.csv found: the table is loaded and the service starts.
LifespanLoad ==
    /\ startup = "pending"
    /\ csv.exists
    /\ df' = load_data(csv).data
    /\ category_columns' = load_data(csv).cats
    /\ startup' = "complete"
    /\ UNCHANGED <<csv, build, request, response>>

\* lifespan, orders.csv missing: FileNotFoundError, the service never starts.
LifespanFail ==
    /\ startup = "pending"
    /\ ~csv.exists
    /\ startup' = "failed"
    /\ UNCHANGED <<csv, build, df, category_columns, request, response>>

\* TestClient(app) outside a with block: requests reach the handlers and the
\* lifespan hook is never run.
ClientWithoutLifespan ==
    /\ startup = "pending"
    /\ startup' = "skipped"
    /\ UNCHANGED <<csv, build, df, category_columns, request, response>>

Serving == startup \in {"complete", "skipped"}

Health ==
    /\ Serving
    /\ request' = Request("/health", NoLimit)
    /\ response' = health
    /\ UNCHANGED <<csv, build, startup, df, category_columns>>

\* Variant: the handler fills the missing cells of the shared table in place.
Kpis_fillna_inplace ==
    /\ Serving
    /\ request' = Request("/kpis", NoLimit)
    /\ response' = get_kpis(df, category_columns, build)
    /\ df' = [df EXCEPT !.rows =
                 [r \in 1..Len(@) |->
                     [c \in 1..Len(@[r]) |-> IF @[r][c] = Null THEN 0 ELSE @[r][c]]]]
    /\ UNCHANGED <<csv, build, startup, category_columns>>

Kpis ==
    /\ Serving
    /\ request' = Request("/kpis", NoLimit)
    /\ response' = get_kpis(df, category_columns, build)
    /\ UNCHANGED <<csv, build, startup, df, category_columns>>

TopCategories ==
    /\ Serving
    /\ \E param \in LimitParams :
          /\ request' = Request("/categories/top", param)
          /\ response' = get_top_categories(df, category_columns, build, param)
    /\ UNCHANGED <<csv, build, startup, df, category_columns>>

OrderDistribution ==
    /\ Serving
    /\ request' = Request("/orders/distribution", NoLimit)
    /\ response' = get_order_distribution(df, build)
    /\ UNCHANGED <<csv, build, startup, df, category_columns>>

Next ==
    \/ LifespanLoad
    \/ LifespanFail
    \/ ClientWithoutLifespan
    \/ Health
    \/ Kpis
    \/ TopCategories
    \/ OrderDistribution

Spec == Init /\ [][Next]_vars

-----------------------------------------------------------------------------
(* Vocabulary of the properties, read off the source file csv              *)

RECURSIVE SumOver(_, _)
SumOver(S, f) ==
    IF S = {} THEN 0
    ELSE LET x == CHOOSE y \in S : TRUE IN f[x] + SumOver(S \ {x}, f)

Abs(x) == IF x < 0 THEN -x ELSE x

RowIds == 1..Len(csv.rows)
CatCols == {c \in 1..Len(csv.columns) : csv.columns[c] \notin meta_cols}
Cell(r, c) == IF csv.rows[r][c] = Null THEN 0 ELSE csv.rows[r][c]

RowItems(r) == SumOver(CatCols, [c \in CatCols |-> Cell(r, c)])
ColTotal(c) == SumOver(RowIds, [r \in RowIds |-> Cell(r, c)])
ColOf(name) == CHOOSE c \in 1..Len(csv.columns) : csv.columns[c] = name

DowOf(r) == csv.rows[r][ColOf("order_dow")]
HourOf(r) == csv.rows[r][ColOf("order_hour_of_day")]
DowsPresent == {DowOf(r) : r \in RowIds}
HoursPresent == {HourOf(r) : r \in RowIds}
DowCount(d) == Cardinality({r \in RowIds : DowOf(r) = d})
HourCount(h) == Cardinality({r \in RowIds : HourOf(r) = h})

\* the k-th smallest of the per-order item counts
KthItems(k) ==
    CHOOSE v \in {RowItems(r) : r \in RowIds} :
        /\ Cardinality({r \in RowIds : RowItems(r) < v}) < k
        /\ k <= Cardinality({r \in RowIds : RowItems(r) <= v})

\* u units of 1/scale is num/den rounded to the nearest unit
IsRounded(u, num, den, scale) == 2 * Abs(u * den - scale * num) <= den

Loaded == df # None
IsEnvelope(resp) ==
    /\ resp.media = "json"
    /\ DOMAIN resp.body = {"status", "message"}
    /\ resp.body.status = "error"
LimitOk(param) == param.present => param.int /\ param.val \in 1..100

-----------------------------------------------------------------------------
(* C1: a limit that is present and is not an integer in 1..100 is answered *)
(* 400 with the fixed message, loaded table or not; an integer in 1..100   *)
(* or an absent limit (10) on a loaded table is answered 200 with that     *)
(* limit in the field limit.                                               *)
C1_LimitValidation ==
    request.path = "/categories/top" =>
        IF LimitOk(request.limit)
        THEN Loaded =>
               /\ response.status = 200
               /\ response.body.limit =
                     (IF request.limit.present THEN request.limit.val ELSE 10)
        ELSE response =
               [status |-> 400, media |-> "json",
                body |-> [status |-> "error",
                          message |-> "Invalid query parameter: limit must be between 1 and 100"]]

C1_Witness ==
    /\ ~Loaded
    /\ request = Request("/categories/top", IntLimit(101))
    /\ response.status = 400

(* C2: on a loaded non-empty table /kpis returns the row count, the sum of *)
(* the category cells (missing as 0, metadata never counted), the mean to  *)
(* 2 decimals and the statistical median to 2 decimals.                    *)
C2_KpiMath ==
    (request.path = "/kpis" /\ Loaded /\ RowIds # {}) =>
        LET n == Len(csv.rows)
            total == SumOver(RowIds, [r \in RowIds |-> RowItems(r)])
            med2 == IF n % 2 = 1 THEN 2 * KthItems((n + 1) \div 2)
                    ELSE KthItems(n \div 2) + KthItems(n \div 2 + 1)
        IN  /\ response.status = 200
            /\ response.body.total_orders = n
            /\ response.body.total_items = total
            /\ IsRounded(response.body.avg_items_per_order, total, n, 100)
            /\ response.body.median_items_per_order = 50 * med2

C2_Witness ==
    /\ csv = SampleFile
    /\ request.path = "/kpis"
    /\ response.body = [total_orders |-> 3, total_items |-> 13,
                        avg_items_per_order |-> 433,
                        median_items_per_order |-> 400]

(* C3: /categories/top with a limit in 1..100 on a loaded table of n       *)
(* category columns returns min(limit, n) entries, each a category with    *)
(* its column total, none twice, totals non-increasing, and no category    *)
(* left out has a total above the smallest one returned.                   *)
C3_TopCategories ==
    (request.path = "/categories/top" /\ LimitOk(request.limit) /\ Loaded) =>
        LET limit == IF request.limit.present THEN request.limit.val ELSE 10
            top == response.body.top_categories
            n == Cardinality(CatCols)
            returned == {ColOf(top[k].category) : k \in 1..Len(top)}
        IN  /\ response.status = 200
            /\ Len(top) = (IF limit < n THEN limit ELSE n)
            /\ \A k \in 1..Len(top) :
                  /\ ColOf(top[k].category) \in CatCols
                  /\ top[k].total_items = ColTotal(ColOf(top[k].category))
            /\ \A j, k \in 1..Len(top) : j < k =>
                  /\ top[j].category # top[k].category
                  /\ top[j].total_items >= top[k].total_items
            /\ \A c \in CatCols \ returned : \A k \in 1..Len(top) :
                  ColTotal(c) <= top[k].total_items

C3_Witness ==
    /\ csv = SampleFile
    /\ request = Request("/categories/top", IntLimit(2))
    /\ response.body.top_categories =
          << [category |-> "fresh_fruits", total_items |-> 7],
             [category |-> "yogurt", total_items |-> 4] >>

C5_DataNotLoaded ==
    /\ request.path = "/health" =>
          response = [status |-> 200, media |-> "json", body |-> [status |-> "ok"]]
    /\ ( /\ ~Loaded
         /\ request.path \in {"/kpis", "/categories/top", "/orders/distribution"}
         /\ LimitOk(request.limit) ) =>
          response = [status |-> 500, media |-> "json",
                      body |-> [status |-> "error", message |-> "Data not loaded"]]

C5_Witness ==
    /\ ~Loaded
    /\ request.path = "/orders/distribution"
    /\ response.status = 500

(* C6: an unexpected failure inside a handler on a loaded table (/kpis on  *)
(* a table without rows, /orders/distribution on an order_dow outside      *)
(* 0..6) is answered 500 with the envelope {status: error, message}.       *)
C6_FailureEnvelope ==
    ( /\ Loaded
      /\ \/ request.path = "/kpis" /\ RowIds = {}
         \/ request.path = "/orders/distribution" /\ ~(DowsPresent \subseteq 0..6) ) =>
        /\ response.status = 500
        /\ IsEnvelope(response)

(* C7: on a loaded non-empty table whose order_dow all lie in 0..6 the     *)
(* day-of-week list has one entry per day present, ascending by            *)
(* day_number, with the fixed day name, the number of rows of that day     *)
(* and its share of the rows in percent to 1 decimal; the orders add up    *)
(* to summary.total_orders and the percentages to 100.0 within 0.7.        *)
C7_DayDistribution ==
    ( /\ request.path = "/orders/distribution" /\ Loaded
      /\ RowIds # {} /\ DowsPresent \subseteq 0..6 ) =>
        LET dist == response.body.day_of_week_distribution
            names == <<"Sunday", "Monday", "Tuesday", "Wednesday", "Thursday",
                       "Friday", "Saturday">>
            n == Len(csv.rows)
            idx == 1..Len(dist)
        IN  /\ response.status = 200
            /\ {dist[k].day_number : k \in idx} = DowsPresent
            /\ \A j, k \in idx : j < k => dist[j].day_number < dist[k].day_number
            /\ \A k \in idx :
                  /\ dist[k].day = names[dist[k].day_number + 1]
                  /\ dist[k].orders = DowCount(dist[k].day_number)
                  /\ IsRounded(dist[k].percentage, 100 * dist[k].orders, n, 10)
            /\ SumOver(idx, [k \in idx |-> dist[k].orders])
                  = response.body.summary.total_orders
            /\ response.body.summary.total_orders = n
            /\ Abs(SumOver(idx, [k \in idx |-> dist[k].percentage]) - 1000) <= 7

C7_Witness ==
    /\ csv = SampleFile
    /\ request.path = "/orders/distribution"
    /\ response.body.day_of_week_distribution =
          << [day |-> "Sunday", day_number |-> 0, orders |-> 1, percentage |-> 333],
             [day |-> "Monday", day_number |-> 1, orders |-> 1, percentage |-> 333],
             [day |-> "Tuesday", day_number |-> 2, orders |-> 1, percentage |-> 333] >>

C9_HourLabels ==
    (request.path = "/orders/distribution" /\ Loaded /\ response.status = 200) =>
        LET peak == response.body.peak_hours
        IN  /\ \A k \in 1..Len(peak) :
                  LET h == peak[k].hour_24
                      label == peak[k].hour
                  IN  /\ h \in 0..23
                      /\ h = 0 => label = [hour |-> 12, suffix |-> "AM"]
                      /\ h \in 1..11 => label = [hour |-> h, suffix |-> "AM"]
                      /\ h = 12 => label = [hour |-> 12, suffix |-> "PM"]
                      /\ h \in 13..23 => label = [hour |-> h - 12, suffix |-> "PM"]
                      /\ label.hour \in 1..12
            /\ \A j, k \in 1..Len(peak) :
                  peak[j].hour_24 # peak[k].hour_24 => peak[j].hour # peak[k].hour

C9_Witness ==
    /\ request.path = "/orders/distribution"
    /\ response.status = 200
    /\ LET peak == response.body.peak_hours
           has(h, l) == \E k \in 1..Len(peak) : peak[k].hour_24 = h /\ peak[k].hour = l
       IN  /\ has(0, [hour |-> 12, suffix |-> "AM"])
           /\ has(12, [hour |-> 12, suffix |-> "PM"])
           /\ has(2, [hour |-> 2, suffix |-> "AM"])
           /\ has(14, [hour |-> 2, suffix |-> "PM"])

(* C10: in /categories/top categories of equal total come in the column    *)
(* order of the table, and where the limit cuts through a group of equal   *)
(* totals the categories kept are the earliest columns of the group.       *)
C10_TiesInColumnOrder ==
    ( /\ request.path = "/categories/top" /\ LimitOk(request.limit) /\ Loaded
      /\ response.status = 200 ) =>
        LET top == response.body.top_categories
            returned == {ColOf(top[k].category) : k \in 1..Len(top)}
        IN  /\ \A j, k \in 1..Len(top) :
                  (j < k /\ top[j].total_items = top[k].total_items) =>
                      ColOf(top[j].category) < ColOf(top[k].category)
            /\ \A c \in CatCols \ returned : \A k \in 1..Len(top) :
                  ColTotal(c) = top[k].total_items => ColOf(top[k].category) < c

====
